---- MODULE Spec2Model ----
(***************************************************************************)
(* Text-augmentation layers of keras_nlp: RandomInsertion                  *)
(* (keras_nlp/layers/random_insertion.py) and RandomSwaps                  *)
(* (keras_nlp/layers/random_swaps.py).                                     *)
(*                                                                         *)
(* Tokens are integer ids.  An optional Python value is None (<<>>) or     *)
(* Some(x) (<<x>>).  A call input is [rank, rows]: a rank-1 tensor is one  *)
(* row, a rank-2 (ragged) tensor is a sequence of rows, each row a         *)
(* sequence of tokens.  The rate is counted in tenths (RateOne is 1.0).    *)
(***************************************************************************)
EXTENDS Integers, Sequences, FiniteSets, TLC

\* ------------------------------------------------------------------ bounds
MaxLen == 2
MaxBatch == 2
MaxCount == 1
MaxGen == 0

\* ------------------------------------------------------------ basic values
None == <<>>
Some(x) == <<x>>
Val(o) == o[1]

NoErr == "ok"
ValueError == "ValueError"
InvalidArgumentError == "InvalidArgumentError"

RateOne == 10

Tokens == {1, 2, 3}
InTokens == {1, 2}

Min(a, b) == IF a < b THEN a ELSE b

RECURSIVE Pow(_, _)
Pow(b, e) == IF e = 0 THEN 1 ELSE b * Pow(b, e - 1)

RECURSIVE SumLen(_)
SumLen(rows) == IF rows = <<>> THEN 0 ELSE Len(Head(rows)) + SumLen(Tail(rows))

RECURSIVE Flat(_)
Flat(rows) == IF rows = <<>> THEN <<>> ELSE Head(rows) \o Flat(Tail(rows))

\* list.count(None) over the three optional arguments
CountNone(a, b, c) == Cardinality({i \in 1..3 : <<a, b, c>>[i] = None})

\* ------------------------------------------------- user-supplied callables
\* skip_fn / skip_py_fn / py_skip_fn: a predicate on a token
SkipFns == {"is_two"}
ApplySkipFn(f, tok) == tok = 2

\* insertion_fn / insertion_py_fn: a token for a token
InsertionFns == {"next"}
ApplyInsertionFn(f, tok) == (tok % 3) + 1

\* ---------------------------------------------------------------- layers
NoLayer == [kind |-> "none"]
NoOut == [rank |-> 0, rows |-> <<>>]

\* random.randint(1, 1e9) when no seed is given
GenSeeds == {7, 42}
PickSeeds(seedArg) == IF seedArg = None THEN GenSeeds ELSE {Val(seedArg)}

\* RandomInsertion.__init__: the skip-mechanism check
InsertionSkipCheckLoose(a) == CountNone(a.skip_list, a.skip_fn, a.skip_py_fn) < 1
InsertionSkipCheck(a) == CountNone(a.skip_list, a.skip_fn, a.skip_py_fn) < 2

\* RandomInsertion.__init__: the insertion-mechanism check
InsertionMechCheckLoose(a) ==
    CountNone(a.insertion_list, a.insertion_fn, a.insertion_py_fn) > 2
InsertionMechCheck(a) ==
    CountNone(a.insertion_list, a.insertion_fn, a.insertion_py_fn) # 2

\* RandomInsertion.__init__ with the seed s the constructor ends up with:
\* the error it raises, in the order of its checks
InsertionInitErr(a) ==
    IF a.max_insertions # None /\ Val(a.max_insertions) < 0 THEN ValueError
    ELSE IF a.rate > RateOne \/ a.rate < 0 THEN ValueError
    ELSE IF InsertionSkipCheck(a) THEN ValueError
    ELSE IF InsertionMechCheck(a) THEN ValueError
    ELSE NoErr

InsertionInit(a, s) ==
    [kind |-> "RandomInsertion",
     rate |-> a.rate,
     max_insertions |-> a.max_insertions,
     insertion_list |-> a.insertion_list,
     insertion_fn |-> a.insertion_fn,
     insertion_py_fn |-> a.insertion_py_fn,
     skip_list |-> a.skip_list,
     skip_fn |-> a.skip_fn,
     skip_py_fn |-> a.skip_py_fn,
     seed |-> s]

\* RandomSwaps.__init__: the skip-mechanism check
SwapsSkipCheck(a) == CountNone(a.skip_list, a.skip_fn, a.py_skip_fn) < 2

SwapsInitErr(a) ==
    IF a.swaps < 0 THEN ValueError
    ELSE IF SwapsSkipCheck(a) THEN ValueError
    ELSE NoErr

SwapsInit(a, s) ==
    [kind |-> "RandomSwaps",
     swaps |-> a.swaps,
     skip_list |-> a.skip_list,
     skip_fn |-> a.skip_fn,
     py_skip_fn |-> a.py_skip_fn,
     seed |-> s]

\* RandomDeletion(rate, max_deletions, skip_list, skip_fn, skip_py_fn, seed):
\* rate outside [0, 1], a negative max_deletions and more than one skip
\* mechanism are construction errors
DeletionInitErr(a) ==
    IF a.rate > RateOne \/ a.rate < 0 THEN ValueError
    ELSE IF a.max_deletions # None /\ Val(a.max_deletions) < 0 THEN ValueError
    ELSE IF CountNone(a.skip_list, a.skip_fn, a.skip_py_fn) < 2 THEN ValueError
    ELSE NoErr

DeletionInit(a, s) ==
    [kind |-> "RandomDeletion",
     rate |-> a.rate,
     max_deletions |-> a.max_deletions,
     skip_list |-> a.skip_list,
     skip_fn |-> a.skip_fn,
     skip_py_fn |-> a.skip_py_fn,
     seed |-> s]

InitErr(a) ==
    IF a.kind = "RandomInsertion" THEN InsertionInitErr(a)
    ELSE IF a.kind = "RandomDeletion" THEN DeletionInitErr(a)
    ELSE SwapsInitErr(a)
InitLayer(a, s) ==
    IF a.kind = "RandomInsertion" THEN InsertionInit(a, s)
    ELSE IF a.kind = "RandomDeletion" THEN DeletionInit(a, s)
    ELSE SwapsInit(a, s)

\* constructor arguments tried
OptCounts == {None} \cup {Some(n) : n \in -1..MaxCount}
InsertionArgs ==
    [kind : {"RandomInsertion"},
     rate : {-5, 0, 5, 10, 15},
     max_insertions : OptCounts,
     insertion_list : {None, Some(<<3>>)},
     insertion_fn : {None} \cup {Some(f) : f \in InsertionFns},
     insertion_py_fn : {None} \cup {Some(f) : f \in InsertionFns},
     skip_list : {None, Some(<<2>>)},
     skip_fn : {None} \cup {Some(f) : f \in SkipFns},
     skip_py_fn : {None} \cup {Some(f) : f \in SkipFns},
     seed : {None, Some(42)}]
DeletionArgs ==
    [kind : {"RandomDeletion"},
     rate : {-5, 0, 5, 10, 15},
     max_deletions : OptCounts,
     skip_list : {None, Some(<<2>>)},
     skip_fn : {None} \cup {Some(f) : f \in SkipFns},
     skip_py_fn : {None} \cup {Some(f) : f \in SkipFns},
     seed : {None, Some(42)}]
SwapsArgs ==
    [kind : {"RandomSwaps"},
     swaps : -1..(MaxCount + 1),
     skip_list : {None, Some(<<2>>)},
     skip_fn : {None} \cup {Some(f) : f \in SkipFns},
     py_skip_fn : {None} \cup {Some(f) : f \in SkipFns},
     seed : {None, Some(42)}]

\* ------------------------------------------------------------- randomness
\* A draw is a number whose base-RawBase digits give the elements of the drawn
\* tensor.  A source of draws is either free (any outcome) or a fixed
\* pseudo-random function of the stream position.
RawBase == 2 * MaxLen - 1
Digit(r, i) == (r \div Pow(RawBase, i)) % RawBase
FreeSrc == [free |-> TRUE]
PrfSrc(f) == [free |-> FALSE, prf |-> f]
DrawSet(src, key, n) == IF src.free THEN 0..(Pow(RawBase, n) - 1) ELSE {src.prf[key]}

\* tf.random.stateless_binomial(counts=L, probs=rate): element i of the draw
Binomial(r, i, L, rate) ==
    IF rate = 0 THEN 0
    ELSE IF rate = RateOne THEN L
    ELSE Digit(r, i) % (L + 1)

\* ------------------------------------------------------ RandomInsertion.call
\* inputs.shape.rank < 1 or inputs.shape.rank > 2
RankCheckLow(rank) == rank < 1
RankCheck(rank) == rank < 1 \/ rank > 2

\* _check_skip(token)
InsertionCheckSkip(self, tok) ==
    IF self.skip_list # None /\ Val(self.skip_list) # <<>>
    THEN \E i \in 1..Len(Val(self.skip_list)) : Val(self.skip_list)[i] = tok
    ELSE IF self.skip_fn # None THEN ApplySkipFn(Val(self.skip_fn), tok)
    ELSE IF self.skip_py_fn # None THEN ApplySkipFn(Val(self.skip_py_fn), tok)
    ELSE FALSE

\* tf.concat([inputs[:loc + 1], [synonym], inputs[loc + 1:]]), loc counted from 0
SpliceBefore(seq, loc, synonym) ==
    SubSeq(seq, 1, loc) \o <<synonym>> \o SubSeq(seq, loc + 1, Len(seq))
Splice(seq, loc, synonym) ==
    SubSeq(seq, 1, loc + 1) \o <<synonym>> \o SubSeq(seq, loc + 2, Len(seq))

\* index[k] of a drawn index tensor that has no k-th element
NoIndex == 0 - 1

\* index[0] and index[1] of the draw r of `size` indices below `size`
InsertIndex(size, r) ==
    [prompt |-> IF size >= 1 THEN Digit(r, 0) % size ELSE NoIndex,
     location |-> IF size >= 2 THEN Digit(r, 1) % size ELSE NoIndex]

\* One iteration of the loop of _insert on st = [seq, gen, inserted, skipped,
\* err] when the index draw is r: the set of states it can end in.
InsertIterOn(self, st, src, r) ==
    LET size == Len(st.seq)
        index == InsertIndex(size, r)
    IN
    \* index has `size` elements: index[1] does not exist when size is 1
    IF index.prompt = NoIndex \/ index.location = NoIndex
    THEN {[st EXCEPT !.gen = st.gen + 1, !.err = InvalidArgumentError]}
    ELSE
      LET original_word == st.seq[index.prompt + 1] IN
      IF InsertionCheckSkip(self, original_word)
      THEN {[st EXCEPT !.gen = st.gen + 1, !.skipped = st.skipped + 1]}
      ELSE IF self.insertion_fn # None
      THEN {[st EXCEPT !.gen = st.gen + 1,
                       !.inserted = st.inserted + 1,
                       !.seq = Splice(st.seq, index.location,
                                 ApplyInsertionFn(Val(self.insertion_fn), original_word))]}
      ELSE IF self.insertion_list # None
      THEN LET lst == Val(self.insertion_list) IN
           IF Len(lst) = 0
           THEN {[st EXCEPT !.gen = st.gen + 2, !.err = InvalidArgumentError]}
           ELSE {[st EXCEPT !.gen = st.gen + 2,
                            !.inserted = st.inserted + 1,
                            !.seq = Splice(st.seq, index.location,
                                           lst[(Digit(r2, 0) % Len(lst)) + 1])]
                 : r2 \in DrawSet(src, st.gen + 1, 1)}
      ELSE {[st EXCEPT !.gen = st.gen + 1,
                       !.inserted = st.inserted + 1,
                       !.seq = Splice(st.seq, index.location,
                                 ApplyInsertionFn(Val(self.insertion_py_fn), original_word))]}

\* One iteration, over the index draws the source allows
InsertIter(self, st, src) ==
    UNION {InsertIterOn(self, st, src, r) : r \in DrawSet(src, st.gen, 2)}

\* _insert((inputs, num_to_select)): the loop, stopped by the first error
RECURSIVE InsertLoop(_, _, _, _)
InsertLoop(self, st, k, src) ==
    IF k = 0 \/ st.err # NoErr THEN {st}
    ELSE UNION {InsertLoop(self, s2, k - 1, src) : s2 \in InsertIter(self, st, src)}

\* num_to_select of row i, from the binomial draw r
NumToSelect(self, r, i, L) ==
    LET n == Binomial(r, i - 1, L, self.rate) IN
    IF self.max_insertions # None THEN Min(n, Val(self.max_insertions)) ELSE n

\* tf.map_fn(_insert, (inputs, num_to_select)): the rows in order, from row i,
\* on acc = [rows, gen, trc, err]
RECURSIVE InsertRows(_, _, _, _, _, _)
InsertRows(self, rows, r, i, acc, src) ==
    IF i > Len(rows) \/ acc.err # NoErr THEN {acc}
    ELSE LET n == NumToSelect(self, r, i, Len(rows[i]))
             st0 == [seq |-> rows[i], gen |-> acc.gen, inserted |-> 0,
                     skipped |-> 0, err |-> NoErr]
         IN UNION {
              InsertRows(self, rows, r, i + 1,
                         [rows |-> Append(acc.rows, st.seq),
                          gen |-> st.gen,
                          trc |-> Append(acc.trc, [num_to_select |-> n,
                                                   inserted |-> st.inserted,
                                                   skipped |-> st.skipped]),
                          err |-> st.err],
                         src)
              : st \in InsertLoop(self, st0, n, src) }

\* RandomInsertion.call(inputs) with the generator at gen: the set of
\* results [out, gen, err, trc] the draws allow
InsertionCall(self, gen, inp, src) ==
    IF RankCheck(inp.rank)
    THEN {[out |-> NoOut, gen |-> gen, err |-> ValueError, trc |-> <<>>]}
    ELSE UNION {
           {[out |-> IF acc.err = NoErr
                     THEN [rank |-> inp.rank, rows |-> acc.rows]
                     ELSE NoOut,
             gen |-> acc.gen, err |-> acc.err, trc |-> acc.trc]
            : acc \in InsertRows(self, inp.rows, r, 1,
                                 [rows |-> <<>>, gen |-> gen + 1, trc |-> <<>>,
                                  err |-> NoErr], src)}
           : r \in DrawSet(src, gen, Len(inp.rows)) }

\* ---------------------------------------------------------- RandomSwaps.call
\* skip_masks of a token; FALSE when skip_masks is None
SwapsSkip(self, tok) ==
    IF self.skip_list # None /\ Val(self.skip_list) # <<>>
    THEN \E i \in 1..Len(Val(self.skip_list)) : Val(self.skip_list)[i] = tok
    ELSE IF self.skip_fn # None THEN ApplySkipFn(Val(self.skip_fn), tok)
    ELSE IF self.py_skip_fn # None THEN ApplySkipFn(Val(self.py_skip_fn), tok)
    ELSE FALSE

\* the entries of seq that satisfy Keep, in order
RECURSIVE SelectSeqOp(_, _)
SelectSeqOp(seq, keep) ==
    IF seq = <<>> THEN <<>>
    ELSE (IF Head(seq) \in keep THEN <<Head(seq)>> ELSE <<>>) \o SelectSeqOp(Tail(seq), keep)

\* positions: row i of tf.range(size(flat_values)) laid out on the input's rows
\* (indices into flat_values, from 0), masked by the negated skip_masks
RowRange(rows, i) ==
    LET off == SumLen(SubSeq(rows, 1, i - 1)) IN [k \in 1..Len(rows[i]) |-> off + k - 1]
Positions(self, rows, i) ==
    LET flat == Flat(rows) IN
    SelectSeqOp(RowRange(rows, i),
                {p \in 0..(Len(flat) - 1) : ~SwapsSkip(self, flat[p + 1])})

\* tf.tensor_scatter_nd_update(positions, [[index1], [index2]],
\*                             [positions[index2], positions[index1]])
SwapSlotsOneWay(pos, index1, index2) ==
    [pos EXCEPT ![index1 + 1] = pos[index2 + 1]]
SwapSlots(pos, index1, index2) ==
    [pos EXCEPT ![index1 + 1] = pos[index2 + 1], ![index2 + 1] = pos[index1 + 1]]

\* index[0] and index[1] of the draw r of `size` indices below `size`
SwapIndex(size, r) ==
    [index1 |-> IF size >= 1 THEN Digit(r, 0) % size ELSE NoIndex,
     index2 |-> IF size >= 2 THEN Digit(r, 1) % size ELSE NoIndex]

\* One iteration of the loop of _swap on st = [pos, ctr, err] when the index
\* draw is r
SwapIterOn(st, r) ==
    LET index == SwapIndex(Len(st.pos), r) IN
    IF index.index1 = NoIndex \/ index.index2 = NoIndex
    THEN [st EXCEPT !.ctr = st.ctr + 1, !.err = InvalidArgumentError]
    ELSE [st EXCEPT !.ctr = st.ctr + 1,
                    !.pos = SwapSlots(st.pos, index.index1, index.index2)]

\* One iteration, over the index draws the source allows; the draws of
\* tf.random.uniform(seed=self.seed) are a stream that the graph-level seed
\* and the number of draws made so far select.
SwapIter(st, graph, src) ==
    {SwapIterOn(st, r) : r \in DrawSet(src, <<graph, st.ctr>>, 2)}

RECURSIVE SwapLoop(_, _, _, _)
SwapLoop(st, k, graph, src) ==
    IF k = 0 \/ st.err # NoErr THEN {st}
    ELSE UNION {SwapLoop(s2, k - 1, graph, src) : s2 \in SwapIter(st, graph, src)}

\* the iterations _swap makes on positions: none when their size is 1
SwapCount(self, pos) == IF Len(pos) = 1 THEN 0 ELSE self.swaps

\* _swap(positions)
SwapRow(self, st, graph, src) == SwapLoop(st, SwapCount(self, st.pos), graph, src)

\* tf.map_fn(_swap, positions): the rows in order, from row i, on
\* acc = [shuffled, ctr, trc, err]
RECURSIVE SwapRows(_, _, _, _, _, _)
SwapRows(self, rows, i, acc, graph, src) ==
    IF i > Len(rows) \/ acc.err # NoErr THEN {acc}
    ELSE LET p0 == Positions(self, rows, i) IN
         UNION {
           SwapRows(self, rows, i + 1,
                    [shuffled |-> Append(acc.shuffled, st.pos),
                     ctr |-> st.ctr,
                     trc |-> Append(acc.trc, [eligible |-> p0, positions |-> st.pos]),
                     err |-> st.err],
                    graph, src)
           : st \in SwapRow(self, [pos |-> p0, ctr |-> acc.ctr, err |-> NoErr], graph, src) }

\* values laid out on rows of the given lengths
RECURSIVE SplitRows(_, _)
SplitRows(values, lens) ==
    IF lens = <<>> THEN <<>>
    ELSE <<SubSeq(values, 1, Head(lens))>>
         \o SplitRows(SubSeq(values, Head(lens) + 1, Len(values)), Tail(lens))

\* tf.RaggedTensor.from_row_splits(tf.gather(inputs.flat_values,
\* shuffled.flat_values), row_splits): [rows, err]
Swapped(rows, shuffled) ==
    LET flat == Flat(rows)
        sf == Flat(shuffled)
        values == [k \in 1..Len(sf) |-> flat[sf[k] + 1]]
    IN IF Len(values) # Len(flat)
       THEN [rows |-> <<>>, err |-> InvalidArgumentError]
       ELSE [rows |-> SplitRows(values, [k \in 1..Len(rows) |-> Len(rows[k])]),
             err |-> NoErr]

\* the rank of what call returns: `swapped`; the squeezed tensor is bound to
\* `inputs`, which is not returned
SwapsReturnRank(inp) == 2

\* RandomSwaps.call(inputs) in a graph traced under the graph-level seed
\* `graph`, with ctr draws made so far: the set of results [out, ctr, err, trc]
SwapsCall(self, graph, ctr, inp, src) ==
    IF RankCheck(inp.rank)
    THEN {[out |-> NoOut, ctr |-> ctr, err |-> ValueError, trc |-> <<>>]}
    ELSE {LET sw == Swapped(inp.rows, acc.shuffled) IN
          IF acc.err # NoErr
          THEN [out |-> NoOut, ctr |-> acc.ctr, err |-> acc.err, trc |-> acc.trc]
          ELSE [out |-> IF sw.err = NoErr
                        THEN [rank |-> SwapsReturnRank(inp), rows |-> sw.rows]
                        ELSE NoOut,
                ctr |-> acc.ctr, err |-> sw.err, trc |-> acc.trc]
          : acc \in SwapRows(self, inp.rows, 1,
                             [shuffled |-> <<>>, ctr |-> ctr, trc |-> <<>>,
                              err |-> NoErr], graph, src)}

\* ------------------------------------------------------ RandomDeletion call
\* the skip predicate of a token: set membership, or the supplied predicate
DeletionSkipNone(self, tok) == FALSE
DeletionSkip(self, tok) ==
    IF self.skip_list # None
    THEN \E i \in 1..Len(Val(self.skip_list)) : Val(self.skip_list)[i] = tok
    ELSE IF self.skip_fn # None THEN ApplySkipFn(Val(self.skip_fn), tok)
    ELSE IF self.skip_py_fn # None THEN ApplySkipFn(Val(self.skip_py_fn), tok)
    ELSE FALSE

\* the eligible-index set of a row: the indices (from 1) whose token fails the
\* skip predicate
DeletionEligible(self, row) == {k \in 1..Len(row) : ~DeletionSkip(self, row[k])}

\* k after the clamp by max_deletions
DeletionClamp(self, k) ==
    IF self.max_deletions # None THEN Min(k, Val(self.max_deletions)) ELSE k

\* the row with the selected indices removed, order preserved
RECURSIVE DeletionRemove(_, _, _)
DeletionRemove(row, selected, k) ==
    IF k > Len(row) THEN <<>>
    ELSE (IF k \in selected THEN <<>> ELSE <<row[k]>>)
         \o DeletionRemove(row, selected, k + 1)

\* the rows in order, from row i, on acc = [rows, trc]: for each row any
\* min(k, |eligible|) of the eligible indices may be the ones selected
RECURSIVE DeletionRows(_, _, _, _, _)
DeletionRows(self, rows, r, i, acc) ==
    IF i > Len(rows) THEN {acc}
    ELSE LET row == rows[i]
             drawn == Binomial(r, i - 1, Len(row), self.rate)
             k == DeletionClamp(self, drawn)
             eligible == DeletionEligible(self, row)
             m == Min(k, Cardinality(eligible))
         IN UNION {
              DeletionRows(self, rows, r, i + 1,
                           [rows |-> Append(acc.rows, DeletionRemove(row, selected, 1)),
                            trc |-> Append(acc.trc, [drawn |-> drawn, k |-> k])])
              : selected \in {sel \in SUBSET eligible : Cardinality(sel) = m} }

\* the call on inputs with the randomness source at gen: the set of results
\* [out, gen, err, trc]; one binomial draw for the batch, one selection draw
\* for each row
DeletionCall(self, gen, inp, src) ==
    IF RankCheck(inp.rank)
    THEN {[out |-> NoOut, gen |-> gen, err |-> ValueError, trc |-> <<>>]}
    ELSE UNION {
           {[out |-> [rank |-> inp.rank, rows |-> acc.rows],
             gen |-> gen + 1 + Len(inp.rows), err |-> NoErr, trc |-> acc.trc]
            : acc \in DeletionRows(self, inp.rows, r, 1, [rows |-> <<>>, trc |-> <<>>])}
           : r \in DrawSet(src, gen, Len(inp.rows)) }

\* ------------------------------------------------------ get_config/from_config
\* get_config(): the entries the layer adds to the base configuration
InsertionGetConfig(self) ==
    [kind |-> "RandomInsertion",
     rate |-> self.rate,
     max_insertions |-> self.max_insertions,
     insertion_list |-> self.insertion_list,
     insertion_fn |-> self.insertion_fn,
     insertion_py_fn |-> self.insertion_py_fn,
     skip_list |-> self.skip_list,
     skip_fn |-> self.skip_fn,
     skip_py_fn |-> self.skip_py_fn,
     seed |-> Some(self.seed)]
SwapsGetConfig(self) ==
    [kind |-> "RandomSwaps", swaps |-> self.swaps, seed |-> Some(self.seed)]
GetConfig(self) ==
    IF self.kind = "RandomInsertion" THEN InsertionGetConfig(self) ELSE SwapsGetConfig(self)

\* from_config(config) is cls(**config): the constructor's arguments, with
\* its defaults for the parameters the configuration does not name
FromConfigArgs(config) ==
    IF config.kind = "RandomInsertion" THEN config
    ELSE [kind |-> "RandomSwaps", swaps |-> config.swaps, skip_list |-> None,
          skip_fn |-> None, py_skip_fn |-> None, seed |-> config.seed]

\* ------------------------------------------------------------ state machine
VARIABLES
    layer,        \* the layer instance: its attributes, or NoLayer
    gen,          \* RandomInsertion: draws made from self._generator
    graph,        \* RandomSwaps: graph-level seed of the traced call, or None
    opctr,        \* RandomSwaps: draws made by the traced call's random op
    global_seed,  \* the process-wide seed, None until it is set
    last,         \* the last operation: its arguments and what it returned
    prf,          \* the pseudo-random function behind the draws, when fixed
    log,          \* the calls made on this instance: input, result
    prev          \* the calls made on the instance built before it

vars == <<layer, gen, graph, opctr, global_seed, last, prf, log, prev>>

NoArgs == [kind |-> "none"]
NoInp == [rank |-> 0, rows |-> <<>>]
Last(op, args, inp, out, err, trc, config, orig) ==
    [op |-> op, args |-> args, inp |-> inp, out |-> out, err |-> err,
     trc |-> trc, config |-> config, orig |-> orig]

\* inputs of call
RECURSIVE SeqsUpTo(_, _)
SeqsUpTo(S, n) ==
    IF n = 0 THEN {<<>>}
    ELSE LET shorter == SeqsUpTo(S, n - 1) IN
         shorter \cup {Append(q, x) : q \in shorter, x \in S}
Rows == SeqsUpTo(InTokens, MaxLen)
\* ragged batches of up to MaxBatch rows, at most one of which is not FillRow
FillRow == <<1, 2>>
Batches ==
    {<<>>} \cup {[k \in 1..n |-> IF k = j THEN r ELSE FillRow] :
                  n \in 1..MaxBatch, j \in 1..MaxBatch, r \in Rows}
Inputs ==
    {[rank |-> 1, rows |-> <<r>>] : r \in Rows}
    \cup {[rank |-> 2, rows |-> b] : b \in Batches}
    \cup {[rank |-> k, rows |-> <<>>] : k \in {0, 3}}

Init ==
    /\ layer = NoLayer
    /\ gen = 0
    /\ graph = None
    /\ opctr = 0
    /\ global_seed = None
    /\ last = Last("init", NoArgs, NoInp, NoOut, NoErr, <<>>, NoArgs, NoLayer)
    /\ prf = <<>>
    /\ log = <<>>
    /\ prev = <<>>

\* layer = cls(**a): __init__ runs its checks; the instance exists when none
\* of them raises
New(op, a, config, orig) ==
    \E s \in PickSeeds(a.seed) :
        /\ layer' = IF InitErr(a) = NoErr THEN InitLayer(a, s) ELSE NoLayer
        /\ gen' = 0
        /\ graph' = None
        /\ opctr' = 0
        /\ last' = Last(op, a, NoInp, NoOut, InitErr(a), <<>>, config, orig)

ConstructInsertion ==
    /\ last.op = "init"
    /\ \E a \in InsertionArgs : New("construct", a, NoArgs, NoLayer)
    /\ UNCHANGED <<global_seed, prf, log, prev>>

ConstructSwaps ==
    /\ last.op = "init"
    /\ \E a \in SwapsArgs : New("construct", a, NoArgs, NoLayer)
    /\ UNCHANGED <<global_seed, prf, log, prev>>

\* layer(inputs) on a RandomInsertion, drawing from src
InsertionCallStep(inp, src) ==
    /\ layer.kind = "RandomInsertion"
    /\ \E res \in InsertionCall(layer, gen, inp, src) :
        /\ gen' = res.gen
        /\ last' = Last("call", NoArgs, inp, res.out, res.err, res.trc, NoArgs, NoLayer)
    /\ UNCHANGED <<layer, graph, opctr, global_seed, prf>>

\* layer(inputs) on a RandomSwaps, drawing from src; the first call that
\* passes the rank check traces the graph under the process-wide seed
SwapsCallStep(inp, src) ==
    /\ layer.kind = "RandomSwaps"
    /\ LET traced == IF RankCheck(inp.rank) THEN graph
                     ELSE IF graph = None THEN Some(global_seed) ELSE graph
       IN /\ graph' = traced
          /\ \E res \in SwapsCall(layer, traced, opctr, inp, src) :
                /\ opctr' = res.ctr
                /\ last' = Last("call", NoArgs, inp, res.out, res.err, res.trc,
                                NoArgs, NoLayer)
    /\ UNCHANGED <<layer, gen, global_seed, prf>>

CallInsertion ==
    /\ \E inp \in Inputs :
        /\ gen <= MaxGen \/ RankCheck(inp.rank)
        /\ InsertionCallStep(inp, FreeSrc)
    /\ UNCHANGED <<log, prev>>

CallSwaps ==
    /\ \E inp \in Inputs :
        /\ opctr <= MaxGen \/ RankCheck(inp.rank)
        /\ SwapsCallStep(inp, FreeSrc)
    /\ UNCHANGED <<log, prev>>

\* config = layer.get_config()
GetConfigStep ==
    /\ layer # NoLayer
    /\ last' = Last("get_config", NoArgs, NoInp, NoOut, NoErr, <<>>, GetConfig(layer), NoLayer)
    /\ UNCHANGED <<layer, gen, graph, opctr, global_seed, prf, log, prev>>

\* layer = cls.from_config(config), with the configuration just exported
FromConfigStep ==
    /\ last.op = "get_config"
    /\ New("from_config", FromConfigArgs(last.config), last.config, layer)
    /\ UNCHANGED <<global_seed, prf, log, prev>>

Next ==
    \/ ConstructInsertion
    \/ ConstructSwaps
    \/ CallInsertion
    \/ CallSwaps
    \/ GetConfigStep
    \/ FromConfigStep

Spec == Init /\ [][Next]_vars

\* --------------------------------------------------------- the deletion layer
ConstructDeletion ==
    /\ last.op = "init"
    /\ \E a \in DeletionArgs : New("construct", a, NoArgs, NoLayer)
    /\ UNCHANGED <<global_seed, prf, log, prev>>

CallDeletion ==
    /\ layer.kind = "RandomDeletion"
    /\ \E inp \in Inputs :
        /\ gen <= MaxGen \/ RankCheck(inp.rank)
        /\ \E res \in DeletionCall(layer, gen, inp, FreeSrc) :
            /\ gen' = res.gen
            /\ last' = Last("call", NoArgs, inp, res.out, res.err, res.trc,
                            NoArgs, NoLayer)
    /\ UNCHANGED <<layer, graph, opctr, global_seed, prf, log, prev>>

DeletionNext ==
    \/ ConstructDeletion
    \/ CallDeletion

SpecDeletion == Init /\ [][DeletionNext]_vars

\* ------------------------------------------- two instances, one configuration
\* A second instance is built with the configuration and the seed of the first
\* and is given calls in turn; the draws are those of one fixed pseudo-random
\* function of (seed, stream position).
MaxTwinCalls == 2
TwinRows == {<<1, 2>>, <<2, 1>>}
TwinInputs == {[rank |-> 1, rows |-> <<r>>] : r \in TwinRows}
TwinArgs ==
    {[kind |-> "RandomInsertion", rate |-> 5, max_insertions |-> Some(1),
      insertion_list |-> Some(<<3>>), insertion_fn |-> None,
      insertion_py_fn |-> None, skip_list |-> None, skip_fn |-> None,
      skip_py_fn |-> None, seed |-> Some(42)],
     [kind |-> "RandomSwaps", swaps |-> 1, skip_list |-> None, skip_fn |-> None,
      py_skip_fn |-> None, seed |-> Some(42)]}

\* keras.utils.set_random_seed(1337)
GlobalSeeds == {None, Some(1337)}

PrfValues == {0, 1}
PrfKeys(kind) ==
    IF kind = "RandomInsertion" THEN 0..(3 * MaxTwinCalls - 1)
    ELSE {<<Some(g), c>> : g \in GlobalSeeds, c \in 0..(MaxTwinCalls - 1)}

\* the arguments that build an instance like self
SameArgs(self) == [self EXCEPT !.seed = Some(self.seed)]

TwinInit ==
    /\ \E a \in TwinArgs :
        /\ layer = InitLayer(a, Val(a.seed))
        /\ last = Last("construct", a, NoInp, NoOut, InitErr(a), <<>>, NoArgs, NoLayer)
        /\ prf \in [PrfKeys(a.kind) -> PrfValues]
    /\ gen = 0
    /\ graph = None
    /\ opctr = 0
    /\ global_seed = None
    /\ log = <<>>
    /\ prev = <<>>

TwinCallStep(inp) ==
    /\ \/ InsertionCallStep(inp, PrfSrc(prf))
       \/ SwapsCallStep(inp, PrfSrc(prf))
    /\ log' = Append(log, [inp |-> inp, out |-> last'.out, err |-> last'.err])
    /\ UNCHANGED prev

\* a call on the first instance
TwinCall ==
    /\ prev = <<>>
    /\ Len(log) < MaxTwinCalls
    /\ \E inp \in TwinInputs : TwinCallStep(inp)

\* the second instance: same arguments, same seed
TwinRebuild ==
    /\ prev = <<>>
    /\ log # <<>>
    /\ New("construct", SameArgs(layer), NoArgs, NoLayer)
    /\ prev' = log
    /\ log' = <<>>
    /\ UNCHANGED <<global_seed, prf>>

\* the second instance is given the first instance's calls, in order
TwinReplay ==
    /\ prev # <<>>
    /\ Len(log) < Len(prev)
    /\ \A k \in 1..Len(log) : log[k].inp = prev[k].inp
    /\ TwinCallStep(prev[Len(log) + 1].inp)

\* the second instance is given the first instance's inputs as one batch
TwinBatch ==
    /\ prev # <<>>
    /\ log = <<>>
    /\ TwinCallStep([rank |-> 2, rows |-> [k \in 1..Len(prev) |-> prev[k].inp.rows[1]]])

SetGlobalSeed ==
    /\ \E s \in GlobalSeeds \ {global_seed, None} : global_seed' = s
    /\ UNCHANGED <<layer, gen, graph, opctr, last, prf, log, prev>>

TwinNext ==
    \/ TwinCall
    \/ TwinRebuild
    \/ TwinReplay
    \/ TwinBatch
    \/ SetGlobalSeed

SpecTwin == TwinInit /\ [][TwinNext]_vars

\* ------------------------------------------------ one call, iteration by iteration
\* A call on a fresh instance is followed through the loop of _insert or _swap
\* on one row of its input, one iteration per step.  last.trc holds the loop:
\* the row, the iterations left, the row as it was, the loop state st and the
\* last iteration (the indices read, the loop state before and after it).
IterArgs ==
    {a \in InsertionArgs :
        /\ InitErr(a) = NoErr
        /\ a.rate \in {5, RateOne}
        /\ a.max_insertions \in {None, Some(MaxCount)}
        /\ a.seed = Some(42)}
    \cup {a \in SwapsArgs : InitErr(a) = NoErr /\ a.seed = Some(42)}

IterInputs == {inp \in Inputs : ~RankCheck(inp.rank) /\ inp.rows # <<>>}

NoRec == <<>>
Loop(op, inp, row, todo, start, st, rec) ==
    Last(op, NoArgs, inp, NoOut, st.err,
         [row |-> row, todo |-> todo, start |-> start, st |-> st, rec |-> rec],
         NoArgs, NoLayer)

IterConstruct ==
    /\ last.op = "init"
    /\ \E a \in IterArgs : New("construct", a, NoArgs, NoLayer)
    /\ UNCHANGED <<global_seed, prf, log, prev>>

\* call(inputs) up to the loop of _insert on row i: the binomial draw, then
\* the rows before row i
InsertBegin ==
    /\ layer.kind = "RandomInsertion"
    /\ last.op = "construct"
    /\ \E inp \in IterInputs, i \in 1..MaxBatch :
        /\ i <= Len(inp.rows)
        /\ \E r \in DrawSet(FreeSrc, gen, Len(inp.rows)) :
            \E acc \in InsertRows(layer, SubSeq(inp.rows, 1, i - 1), r, 1,
                                  [rows |-> <<>>, gen |-> gen + 1, trc |-> <<>>,
                                   err |-> NoErr], FreeSrc) :
                /\ acc.err = NoErr
                /\ gen' = acc.gen
                /\ last' = Loop("insert", inp, i,
                                NumToSelect(layer, r, i, Len(inp.rows[i])),
                                inp.rows[i],
                                [seq |-> inp.rows[i], gen |-> acc.gen, inserted |-> 0,
                                 skipped |-> 0, err |-> NoErr],
                                NoRec)
    /\ UNCHANGED <<layer, graph, opctr, global_seed, prf, log, prev>>

\* one iteration of `for _ in range(num_to_select)`
InsertStep ==
    /\ last.op = "insert"
    /\ last.trc.todo > 0
    /\ last.trc.st.err = NoErr
    /\ LET t == last.trc IN
       \E r \in DrawSet(FreeSrc, t.st.gen, 2) :
           \E st2 \in InsertIterOn(layer, t.st, FreeSrc, r) :
               /\ gen' = st2.gen
               /\ last' = Loop("insert", last.inp, t.row, t.todo - 1, t.start, st2,
                               [index |-> InsertIndex(Len(t.st.seq), r),
                                before |-> t.st, after |-> st2,
                                todo0 |-> t.todo, todo1 |-> t.todo - 1])
    /\ UNCHANGED <<layer, graph, opctr, global_seed, prf, log, prev>>

\* call(inputs) up to the loop of _swap on row i: the positions, then the rows
\* before row i
SwapBegin ==
    /\ layer.kind = "RandomSwaps"
    /\ last.op = "construct"
    /\ graph' = Some(global_seed)
    /\ \E inp \in IterInputs, i \in 1..MaxBatch :
        /\ i <= Len(inp.rows)
        /\ \E acc \in SwapRows(layer, SubSeq(inp.rows, 1, i - 1), 1,
                               [shuffled |-> <<>>, ctr |-> opctr, trc |-> <<>>,
                                err |-> NoErr], graph', FreeSrc) :
            LET p0 == Positions(layer, inp.rows, i) IN
            /\ acc.err = NoErr
            /\ opctr' = acc.ctr
            /\ last' = Loop("swap", inp, i, SwapCount(layer, p0), p0,
                            [pos |-> p0, ctr |-> acc.ctr, err |-> NoErr], NoRec)
    /\ UNCHANGED <<layer, gen, global_seed, prf, log, prev>>

\* one iteration of `for _ in range(self.swaps)`
SwapStep ==
    /\ last.op = "swap"
    /\ last.trc.todo > 0
    /\ last.trc.st.err = NoErr
    /\ LET t == last.trc IN
       \E r \in DrawSet(FreeSrc, <<graph, t.st.ctr>>, 2) :
           LET st2 == SwapIterOn(t.st, r) IN
           /\ opctr' = st2.ctr
           /\ last' = Loop("swap", last.inp, t.row, t.todo - 1, t.start, st2,
                           [index |-> SwapIndex(Len(t.st.pos), r),
                            before |-> t.st, after |-> st2,
                            todo0 |-> t.todo, todo1 |-> t.todo - 1])
    /\ UNCHANGED <<layer, gen, graph, global_seed, prf, log, prev>>

IterNext ==
    \/ IterConstruct
    \/ InsertBegin
    \/ InsertStep
    \/ SwapBegin
    \/ SwapStep

SpecIter == Init /\ [][IterNext]_vars

\* ------------------------------------------------------------------ claims
IsCall(kind) == last.op = "call" /\ layer.kind = kind
ValidRank == last.inp.rank \in {1, 2}
InRows == last.inp.rows
OutRows == last.out.rows

\* the number of mechanisms supplied among three optional arguments
Supplied(a, b, c) ==
    (IF a = None THEN 0 ELSE 1) + (IF b = None THEN 0 ELSE 1) + (IF c = None THEN 0 ELSE 1)
SkipSupplied(a) ==
    IF a.kind = "RandomInsertion" THEN Supplied(a.skip_list, a.skip_fn, a.skip_py_fn)
    ELSE Supplied(a.skip_list, a.skip_fn, a.py_skip_fn)
MechSupplied(a) == Supplied(a.insertion_list, a.insertion_fn, a.insertion_py_fn)

\* a token the configured skip mechanism protects
InList(lst, tok) == \E i \in 1..Len(lst) : lst[i] = tok
SkipProtected(self, tok) ==
    \/ self.skip_list # None /\ InList(Val(self.skip_list), tok)
    \/ self.skip_fn # None /\ ApplySkipFn(Val(self.skip_fn), tok)
    \/ IF self.kind = "RandomSwaps"
       THEN self.py_skip_fn # None /\ ApplySkipFn(Val(self.py_skip_fn), tok)
       ELSE self.skip_py_fn # None /\ ApplySkipFn(Val(self.skip_py_fn), tok)
EligibleCount(self, row) == Cardinality({k \in 1..Len(row) : ~SkipProtected(self, row[k])})

Occurrences(seq, tok) == Cardinality({k \in 1..Len(seq) : seq[k] = tok})
IsPermutation(a, b) ==
    Len(a) = Len(b) /\ \A tok \in Tokens : Occurrences(a, tok) = Occurrences(b, tok)

\* C1: a RandomInsertion call on a rank-1 or rank-2 input returns, for every
\* row of length L, a row of length L + (the iterations not abandoned), and
\* inserts at most num_to_select tokens, hence at most max_insertions.
C1_InsertionLength ==
    (IsCall("RandomInsertion") /\ ValidRank) =>
        /\ last.err = NoErr
        /\ Len(OutRows) = Len(InRows)
        /\ \A i \in 1..Len(InRows) :
            /\ Len(OutRows[i]) = Len(InRows[i]) + last.trc[i].inserted
            /\ last.trc[i].inserted <= last.trc[i].num_to_select
            /\ layer.max_insertions # None =>
                   last.trc[i].inserted <= Val(layer.max_insertions)

\* C2: a RandomSwaps call returns, for every row of the input, a permutation
\* of that row, under every skip configuration (rows whose eligible set is
\* empty are left to C10).
C2_SwapsPermutation ==
    (/\ IsCall("RandomSwaps")
     /\ ValidRank
     /\ \A i \in 1..Len(InRows) : EligibleCount(layer, InRows[i]) >= 1) =>
        /\ last.err = NoErr
        /\ Len(OutRows) = Len(InRows)
        /\ \A i \in 1..Len(InRows) : IsPermutation(OutRows[i], InRows[i])

\* C3: in the output of a RandomSwaps call every skip-protected token of the
\* input is at the index it had in the input.
C3_SwapsProtectedInPlace ==
    (/\ IsCall("RandomSwaps")
     /\ ValidRank
     /\ \A i \in 1..Len(InRows) : EligibleCount(layer, InRows[i]) >= 1
     /\ \E i \in 1..Len(InRows) : EligibleCount(layer, InRows[i]) < Len(InRows[i])) =>
        /\ last.err = NoErr
        /\ Len(OutRows) = Len(InRows)
        /\ \A i \in 1..Len(InRows) :
            /\ Len(OutRows[i]) = Len(InRows[i])
            /\ \A k \in 1..Len(InRows[i]) :
                   SkipProtected(layer, InRows[i][k]) => OutRows[i][k] = InRows[i][k]

\* C4: a call that returns, returns a result of the rank of its input, and for
\* a batch as many sequences as the batch has.
C4_RankPreserved ==
    (last.op = "call" /\ ValidRank /\ last.err = NoErr) =>
        /\ last.out.rank = last.inp.rank
        /\ Len(OutRows) = Len(InRows)

\* C5: the per-example outputs of a fresh instance given s1..sn one per call
\* are those of a fresh instance (same configuration, same seed) given the
\* batch [s1..sn], the process-wide seed being left alone throughout.
C5_BatchSizeIndependence ==
    (/\ global_seed = None
     /\ prev # <<>>
     /\ Len(log) = 1
     /\ log[1].inp.rank = 2
     /\ \A k \in 1..Len(prev) : prev[k].inp.rank = 1 /\ prev[k].err = NoErr
     /\ log[1].inp.rows = [k \in 1..Len(prev) |-> prev[k].inp.rows[1]]) =>
        /\ log[1].err = NoErr
        /\ \A k \in 1..Len(prev) : log[1].out.rows[k] = prev[k].out.rows[1]

\* C6: two instances built with the same configuration and seed and given the
\* same calls return the same result at every call, whatever the process-wide
\* seed is when each is called.
C6_Determinism ==
    \A k \in 1..Min(Len(prev), Len(log)) :
        (\A j \in 1..k : prev[j].inp = log[j].inp) =>
            prev[k].out = log[k].out /\ prev[k].err = log[k].err

\* C7: RandomInsertion(...) raises when rate is outside [0, 1], when
\* max_insertions is negative, or when not exactly one insertion mechanism is
\* supplied; it succeeds when rate is in [0, 1], max_insertions is absent or
\* non-negative, exactly one insertion mechanism and at most one skip
\* mechanism are supplied.
C7_InsertionConstruction ==
    (last.op = "construct" /\ last.args.kind = "RandomInsertion") =>
        LET a == last.args
            rateOk == a.rate >= 0 /\ a.rate <= RateOne
            maxOk == a.max_insertions = None \/ Val(a.max_insertions) >= 0
        IN /\ (~rateOk \/ ~maxOk \/ MechSupplied(a) # 1) =>
                  last.err = ValueError /\ layer = NoLayer
           /\ (rateOk /\ maxOk /\ MechSupplied(a) = 1 /\ SkipSupplied(a) <= 1) =>
                  last.err = NoErr /\ layer.kind = "RandomInsertion"
C7_Witness ==
    /\ last.op = "construct"
    /\ last.args.kind = "RandomInsertion"
    /\ last.args.rate = RateOne
    /\ last.args.max_insertions = Some(0)
    /\ MechSupplied(last.args) = 2
    /\ SkipSupplied(last.args) = 0
    /\ last.err = ValueError

\* C8: two or more skip mechanisms are a construction-time error; none is
\* accepted, and then no call treats any token as skip-protected.
OtherwiseValid(a) ==
    IF a.kind = "RandomInsertion"
    THEN /\ a.rate >= 0 /\ a.rate <= RateOne
         /\ a.max_insertions = None \/ Val(a.max_insertions) >= 0
         /\ MechSupplied(a) = 1
    ELSE a.swaps >= 0
C9_ConfigRoundTrip ==
    last.op = "from_config" =>
        /\ last.err = NoErr
        /\ GetConfig(layer) = last.config
        /\ layer.seed = last.orig.seed
        /\ layer.skip_list = last.orig.skip_list
        /\ IF layer.kind = "RandomInsertion"
           THEN /\ layer.rate = last.orig.rate
                /\ layer.max_insertions = last.orig.max_insertions
                /\ layer.insertion_list = last.orig.insertion_list
           ELSE layer.swaps = last.orig.swaps

\* C10: a RandomSwaps call on rows that each have at most one eligible index
\* completes and returns the rows unchanged, for every swaps >= 0.
C10_SwapsNothingToSwap ==
    (/\ IsCall("RandomSwaps")
     /\ ValidRank
     /\ \A i \in 1..Len(InRows) : EligibleCount(layer, InRows[i]) <= 1) =>
        /\ last.err = NoErr
        /\ OutRows = InRows

\* the last iteration of the loop that is being followed
Rec == last.trc.rec
InLoop(op) == last.op = op /\ Rec # NoRec

\* a is b with some entries left out
RECURSIVE IsSubseq(_, _)
IsSubseq(a, b) ==
    IF a = <<>> THEN TRUE
    ELSE IF b = <<>> THEN FALSE
    ELSE IF Head(a) = Head(b) THEN IsSubseq(Tail(a), Tail(b))
    ELSE IsSubseq(a, Tail(b))

\* C11: an iteration of the insertion loop whose prompt index points at a
\* skip-protected token completes, leaves the sequence as it was, inserts
\* nothing, advances the generator by the one index draw and uses up one of
\* the num_to_select iterations.
C11_SkippedIteration ==
    (/\ InLoop("insert")
     /\ Rec.index.prompt # NoIndex
     /\ SkipProtected(layer, Rec.before.seq[Rec.index.prompt + 1])) =>
        /\ Rec.after.err = NoErr
        /\ Rec.after.seq = Rec.before.seq
        /\ Rec.after.inserted = Rec.before.inserted
        /\ Rec.after.gen = Rec.before.gen + 1
        /\ Rec.todo1 = Rec.todo0 - 1

\* C12: a RandomDeletion call returns, for every row of length L with drawn
\* count k, the row with exactly min(k, max_deletions, number of eligible
\* indices) tokens removed, the survivors in their order; every skip-protected
\* token survives, and at most min(max_deletions, L) tokens are removed.
C12_DeletionRemoved ==
    (IsCall("RandomDeletion") /\ ValidRank) =>
        /\ last.err = NoErr
        /\ last.out.rank = last.inp.rank
        /\ Len(OutRows) = Len(InRows)
        /\ \A i \in 1..Len(InRows) :
            LET row == InRows[i]
                out == OutRows[i]
                k == last.trc[i].drawn
                cap == IF layer.max_deletions = None THEN Len(row)
                       ELSE Val(layer.max_deletions)
                removed == Len(row) - Len(out)
            IN /\ removed = Min(Min(k, cap), EligibleCount(layer, row))
               /\ removed <= Min(cap, Len(row))
               /\ IsSubseq(out, row)
               /\ \A tok \in Tokens :
                    SkipProtected(layer, tok) =>
                        Occurrences(out, tok) = Occurrences(row, tok)
C12_Witness ==
    /\ IsCall("RandomDeletion")
    /\ last.inp.rank = 2
    /\ Len(InRows) = 2
    /\ last.trc[2].drawn = 2
    /\ layer.max_deletions = None
    /\ EligibleCount(layer, InRows[2]) = 1
    /\ Len(OutRows[2]) = 1

\* C13: every iteration of the insertion loop, on a sequence of any length
\* L >= 1, obtains a prompt index and a location index, both in
\* [0, current length), and does not fail.
C13_IndicesInRange ==
    InLoop("insert") =>
        LET size == Len(Rec.before.seq) IN
        /\ Rec.index.prompt \in 0..(size - 1)
        /\ Rec.index.location \in 0..(size - 1)
        /\ Rec.after.err = NoErr

\* C14: an iteration that inserts, with location index j on the sequence s,
\* yields s[0..j], the new token, s[j+1..]; so at every point of the loop the
\* row as it was given is a subsequence of the current sequence and its first
\* token is still first.
C14_SpliceAfterLocation ==
    /\ (InLoop("insert") /\ Rec.after.inserted = Rec.before.inserted + 1) =>
        LET s == Rec.before.seq
            j == Rec.index.location
            out == Rec.after.seq
        IN /\ Len(out) = Len(s) + 1
           /\ \A k \in 1..(j + 1) : out[k] = s[k]
           /\ out[j + 2] \in Tokens
           /\ \A k \in (j + 2)..Len(s) : out[k + 1] = s[k]
    /\ last.op = "insert" =>
        /\ IsSubseq(last.trc.start, last.trc.st.seq)
        /\ last.trc.start # <<>> => last.trc.st.seq[1] = last.trc.start[1]
C14_Witness ==
    /\ InLoop("insert")
    /\ Rec.before.inserted = 1
    /\ Rec.after.inserted = 2
    /\ Rec.index.location = 0
    /\ Rec.after.err = NoErr

\* C15: at every point of the swap loop the positions array is a permutation
\* of the eligible indices of its own row (none duplicated, none lost, none of
\* another row), and an iteration changes no slot but the two it drew, also
\* when it drew the same slot twice.
C15_PositionsPermutation ==
    last.op = "swap" =>
        LET pos == last.trc.st.pos
            start == last.trc.start
            own == RowRange(last.inp.rows, last.trc.row)
        IN /\ Len(pos) = Len(start)
           /\ {pos[k] : k \in 1..Len(pos)} = {start[k] : k \in 1..Len(start)}
           /\ Cardinality({pos[k] : k \in 1..Len(pos)}) = Len(pos)
           /\ \A k \in 1..Len(pos) : \E m \in 1..Len(own) : pos[k] = own[m]
           /\ (Rec # NoRec /\ Rec.after.err = NoErr) =>
                \A k \in 1..Len(pos) :
                    (k # Rec.index.index1 + 1 /\ k # Rec.index.index2 + 1) =>
                        Rec.after.pos[k] = Rec.before.pos[k]
C15_Witness ==
    /\ InLoop("swap")
    /\ last.trc.row = 2
    /\ Len(last.trc.st.pos) >= 2
    /\ Rec.index.index1 = Rec.index.index2
    /\ Rec.todo0 = 1
    /\ layer.swaps = 2

\* C16: a call of either layer on an input whose rank is not 1 or 2 raises
\* ValueError and returns nothing; the generator's counter, the random op's
\* counter, the traced graph and the layer's attributes, hence its exported
\* configuration, are what they were before the call.
C16_RankErrorNoEffect ==
    [][(last'.op = "call" /\ last'.inp.rank \notin {1, 2}) =>
          /\ last'.err = ValueError
          /\ last'.out = NoOut
          /\ last'.trc = <<>>
          /\ gen' = gen
          /\ opctr' = opctr
          /\ graph' = graph
          /\ layer' = layer
          /\ GetConfig(layer') = GetConfig(layer)]_vars
C16_Witness ==
    /\ last.op = "call"
    /\ ~ValidRank
    /\ last.err = ValueError
    /\ layer.kind = "RandomInsertion"
    /\ gen > 0

====
